---- MODULE Spec2Model ----
(***************************************************************************)
(* A model of src/src/sync.py: the WebUntis timetable to iCalendar sync.   *)
(*                                                                         *)
(* JSON values are tagged records:                                         *)
(*   [t |-> "absent"]            the key is not in the object              *)
(*   [t |-> "null"]              JSON null (Python None)                   *)
(*   [t |-> "int", v |-> n]      a JSON integer                            *)
(*   [t |-> "str", v |-> s]      a JSON string                             *)
(* Python strings that are scanned character by character (the argument    *)
(* of strptime) are sequences of one-character strings; strings that are   *)
(* only concatenated are TLA+ strings.                                     *)
(* Dates of the request window are day ordinals (date.toordinal()).        *)
(***************************************************************************)
EXTENDS Integers, Sequences, FiniteSets, TLC

Absent == [t |-> "absent"]
IntV(n) == [t |-> "int", v |-> n]
StrV(s) == [t |-> "str", v |-> s]

(***************************************************************************)
(* Python built-ins used by the program.                                   *)
(***************************************************************************)

\* bool(x) of a JSON value; dict.get of an absent key gives None.
Truthy(x) ==
  CASE x.t = "absent" -> FALSE
    [] x.t = "null" -> FALSE
    [] x.t = "int" -> x.v /= 0
    [] x.t = "str" -> x.v /= ""

DigitChar(d) ==
  CASE d = 0 -> "0" [] d = 1 -> "1" [] d = 2 -> "2" [] d = 3 -> "3"
    [] d = 4 -> "4" [] d = 5 -> "5" [] d = 6 -> "6" [] d = 7 -> "7"
    [] d = 8 -> "8" [] d = 9 -> "9"

IsDigit(c) == c \in {"0", "1", "2", "3", "4", "5", "6", "7", "8", "9"}

DigitVal(c) == CHOOSE d \in 0..9 : DigitChar(d) = c

RECURSIVE NatChars(_)
\* the decimal digits of a natural number, most significant first
NatChars(n) == IF n < 10 THEN <<DigitChar(n)>>
               ELSE NatChars(n \div 10) \o <<DigitChar(n % 10)>>

\* the characters of the JSON strings that occur in parsed fields
CharsOf(s) ==
  CASE s = "" -> <<>>
    [] s = "abc" -> <<"a", "b", "c">>
    [] s = "08:00" -> <<"0", "8", ":", "0", "0">>
    [] s = "17" -> <<"1", "7">>
    [] OTHER -> <<"?">>

\* str(x), as a sequence of characters
Str(x) ==
  CASE x.t = "int" -> IF x.v < 0 THEN <<"-">> \o NatChars(-x.v) ELSE NatChars(x.v)
    [] x.t = "str" -> CharsOf(x.v)
    [] x.t = "null" -> <<"N", "o", "n", "e">>

RECURSIVE Cat(_)
\* ''.join(chars): a character sequence as one string
Cat(cs) == IF cs = <<>> THEN "" ELSE Head(cs) \o Cat(Tail(cs))

\* the text an f-string or str() produces for a JSON value
Text(x) == IF x.t = "str" THEN x.v ELSE Cat(Str(x))

RECURSIVE Zeros(_)
Zeros(n) == IF n <= 0 THEN <<>> ELSE <<"0">> \o Zeros(n - 1)

\* str.zfill(width): zeros go after a leading sign
Zfill(cs, width) ==
  IF Len(cs) >= width THEN cs
  ELSE IF cs /= <<>> /\ Head(cs) \in {"+", "-"}
       THEN <<Head(cs)>> \o Zeros(width - Len(cs)) \o Tail(cs)
       ELSE Zeros(width - Len(cs)) \o cs

RECURSIVE Join(_, _)
\* sep.join(parts)
Join(parts, sep) ==
  IF parts = <<>> THEN ""
  ELSE IF Len(parts) = 1 THEN parts[1]
  ELSE parts[1] \o sep \o Join(Tail(parts), sep)

(***************************************************************************)
(* datetime.strptime(s, "%Y%m%d%H%M").  The format compiles to the regex   *)
(*   (\d\d\d\d)(1[0-2]|0[1-9]|[1-9])(3[0-1]|[1-2]\d|0[1-9]|[1-9]| [1-9])   *)
(*   (2[0-3]|[0-1]\d|\d)([0-5]\d|\d)                                       *)
(* matched at the start of s with backtracking; the first match in the     *)
(* alternatives' order is taken, and it must consume the whole of s.       *)
(***************************************************************************)

At(s, p) == IF p >= 1 /\ p <= Len(s) THEN s[p] ELSE "$"

\* the lengths, in the order the regex tries them, that directive k
\* (1 = %Y, 2 = %m, 3 = %d, 4 = %H, 5 = %M) can match at position p of s
Candidates(k, s, p) ==
  LET a == At(s, p)
      b == At(s, p + 1)
  IN CASE k = 1 ->
            IF \A i \in 0..3 : IsDigit(At(s, p + i)) THEN <<4>> ELSE <<>>
       [] k = 2 ->
            (IF (a = "1" /\ b \in {"0", "1", "2"}) \/ (a = "0" /\ IsDigit(b) /\ b /= "0")
             THEN <<2>> ELSE <<>>)
            \o (IF IsDigit(a) /\ a /= "0" THEN <<1>> ELSE <<>>)
       [] k = 3 ->
            (IF (a = "3" /\ b \in {"0", "1"}) \/ (a \in {"1", "2"} /\ IsDigit(b))
                \/ (a = "0" /\ IsDigit(b) /\ b /= "0")
             THEN <<2>> ELSE <<>>)
            \o (IF IsDigit(a) /\ a /= "0" THEN <<1>> ELSE <<>>)
            \o (IF a = " " /\ IsDigit(b) /\ b /= "0" THEN <<2>> ELSE <<>>)
       [] k = 4 ->
            (IF (a = "2" /\ b \in {"0", "1", "2", "3"}) \/ (a \in {"0", "1"} /\ IsDigit(b))
             THEN <<2>> ELSE <<>>)
            \o (IF IsDigit(a) THEN <<1>> ELSE <<>>)
       [] k = 5 ->
            (IF a \in {"0", "1", "2", "3", "4", "5"} /\ IsDigit(b) THEN <<2>> ELSE <<>>)
            \o (IF IsDigit(a) THEN <<1>> ELSE <<>>)

RECURSIVE MatchFrom(_, _, _), TryCands(_, _, _, _, _)
\* the regex's match of directives k..5 at position p: [ok, lens]
MatchFrom(s, p, k) ==
  IF k > 5 THEN [ok |-> TRUE, lens |-> <<>>]
  ELSE TryCands(s, p, k, Candidates(k, s, p), 1)

TryCands(s, p, k, cands, i) ==
  IF i > Len(cands) THEN [ok |-> FALSE, lens |-> <<>>]
  ELSE LET r == MatchFrom(s, p + cands[i], k + 1)
       IN IF r.ok THEN [ok |-> TRUE, lens |-> <<cands[i]>> \o r.lens]
          ELSE TryCands(s, p, k, cands, i + 1)

RECURSIVE NumAt(_, _, _)
\* int() of the n characters of s that end at position p (space counts 0)
NumAt(s, p, n) ==
  IF n = 0 THEN 0
  ELSE NumAt(s, p - 1, n - 1) * 10 + (IF IsDigit(s[p]) THEN DigitVal(s[p]) ELSE 0)

IsLeap(y) == (y % 4 = 0) /\ ((y % 100 /= 0) \/ (y % 400 = 0))

DaysInMonth(y, m) ==
  IF m = 2 THEN (IF IsLeap(y) THEN 29 ELSE 28)
  ELSE IF m \in {4, 6, 9, 11} THEN 30 ELSE 31

\* strptime: [ok |-> FALSE] stands for ValueError
Strptime(s) ==
  LET r == MatchFrom(s, 1, 1)
  IN IF ~r.ok THEN [ok |-> FALSE]
     ELSE LET l == r.lens
              e1 == l[1]
              e2 == e1 + l[2]
              e3 == e2 + l[3]
              e4 == e3 + l[4]
              e5 == e4 + l[5]
              y == NumAt(s, e1, l[1])
              m == NumAt(s, e2, l[2])
              d == NumAt(s, e3, l[3])
          IN IF e5 /= Len(s) THEN [ok |-> FALSE]
             ELSE IF y < 1 \/ d > DaysInMonth(y, m) THEN [ok |-> FALSE]
             ELSE [ok |-> TRUE, year |-> y, month |-> m, day |-> d,
                   hour |-> NumAt(s, e4, l[4]), minute |-> NumAt(s, e5, l[5])]

\* parse_webuntis_time(date_int, time_int)
parse_webuntis_time(date_int, time_int) ==
  Strptime(Str(date_int) \o Zfill(Str(time_int), 4))


\* int(x) for the configured class id: [ok |-> FALSE] stands for ValueError
IntOf(x) ==
  IF x.t = "int" THEN [ok |-> TRUE, v |-> x.v]
  ELSE LET cs == Str(x)
       IN IF cs /= <<>> /\ \A k \in 1..Len(cs) : IsDigit(cs[k])
          THEN [ok |-> TRUE, v |-> NumAt(cs, Len(cs), Len(cs))]
          ELSE [ok |-> FALSE]

Min(a, b) == IF a <= b THEN a ELSE b

(***************************************************************************)
(* The lesson normalizer: the body of sync_calendar's loop.                *)
(***************************************************************************)

ListV(s) == [t |-> "list", v |-> s]

\* lesson.get(key, []) of a list-valued key
GetList(x) == IF x.t = "absent" THEN <<>> ELSE x.v

\* e.get('longname') or e.get('name', '')
DisplayName(e) ==
  IF Truthy(e.longname) THEN e.longname.v
  ELSE IF e.name.t = "absent" THEN "" ELSE e.name.v

\* [DisplayName(e) for e in lesson.get(key, [])]
Names(x) == [k \in 1..Len(GetList(x)) |-> DisplayName(GetList(x)[k])]

\* a faulty variant of IsCancelled: the code is compared with a misspelt word
IsCancelledMisspelt(lesson) == lesson.code = StrV("canceled")

\* lesson.get('code') == 'cancelled'
IsCancelled(lesson) == lesson.code = StrV("cancelled")

\* the exception the body raises for a lesson that is not cancelled, in the
\* order the body evaluates: lesson['date'], lesson['startTime'], the parse of
\* the start, lesson['endTime'], the parse of the end, lesson['id']
Raised(lesson) ==
  IF lesson.date.t = "absent" \/ lesson.startTime.t = "absent" THEN "KeyError"
  ELSE IF ~parse_webuntis_time(lesson.date, lesson.startTime).ok THEN "ValueError"
  ELSE IF lesson.endTime.t = "absent" THEN "KeyError"
  ELSE IF ~parse_webuntis_time(lesson.date, lesson.endTime).ok THEN "ValueError"
  ELSE IF lesson.id.t = "absent" THEN "KeyError"
  ELSE "none"

\* a faulty variant of Caught: the except clause names the wrong exception
CaughtKeyError(exc) == exc = "KeyError"

\* the loop's except clause: except ValueError: continue
Caught(exc) == exc = "ValueError"

\* a faulty variant of Summary: the subjects are joined without the space
SummaryNoSpace(lesson) ==
  LET subjects == Names(lesson.su)
      summary == IF subjects /= <<>> THEN Join(subjects, ",") ELSE "Lesson"
  IN IF Truthy(lesson.substText)
     THEN summary \o " (" \o Text(lesson.substText) \o ")"
     ELSE summary

Summary(lesson) ==
  LET subjects == Names(lesson.su)
      summary == IF subjects /= <<>> THEN Join(subjects, ", ") ELSE "Lesson"
  IN IF Truthy(lesson.substText)
     THEN summary \o " (" \o Text(lesson.substText) \o ")"
     ELSE summary

Description(lesson) ==
  LET teachers == Names(lesson.te)
      classes == Names(lesson.kl)
      parts == (IF teachers /= <<>> THEN <<Join(teachers, " / ")>> ELSE <<>>)
               \o (IF classes /= <<>> THEN <<Join(classes, " / ")>> ELSE <<>>)
               \o (IF Truthy(lesson.info) THEN <<Text(lesson.info)>> ELSE <<>>)
               \o (IF Truthy(lesson.substText) THEN <<Text(lesson.substText)>> ELSE <<>>)
  IN IF parts /= <<>> THEN StrV(Join(parts, "\n")) ELSE Absent

Location(lesson) ==
  LET rooms == Names(lesson.ro)
  IN IF rooms /= <<>> THEN StrV(Join(rooms, ", ")) ELSE Absent

\* timezone.localize(dt)
Localize(dt) == [year |-> dt.year, month |-> dt.month, day |-> dt.day,
                 hour |-> dt.hour, minute |-> dt.minute, tz |-> "Europe/Brussels"]

\* a faulty variant of Uid: the startTime is left out
UidWithoutStartTime(lesson) ==
  Text(lesson.id) \o "-" \o Text(lesson.date) \o "@webuntis-sync"

Uid(lesson) ==
  Text(lesson.id) \o "-" \o Text(lesson.date) \o "-" \o Text(lesson.startTime)
  \o "@webuntis-sync"

\* the Event built for a lesson that raises nothing
MakeEvent(lesson) ==
  [summary |-> Summary(lesson),
   dtstart |-> Localize(parse_webuntis_time(lesson.date, lesson.startTime)),
   dtend |-> Localize(parse_webuntis_time(lesson.date, lesson.endTime)),
   description |-> Description(lesson),
   location |-> Location(lesson),
   uid |-> Uid(lesson)]


(***************************************************************************)
(* Bounds of the model and the inputs it enumerates.                       *)
(***************************************************************************)

\* today is one of the day ordinals 0..MaxToday
MaxToday == 0
\* get_timetable on its own: start_date in 0..MaxStart, end_date up to
\* MaxWindow days after start_date
MaxStart == 1
MaxWindow == 59
\* at most MaxTimetable lessons are returned over a whole run, and the
\* normalizer on its own is given at most MaxTimetable lessons
MaxTimetable == 2

\* the program's constants
DaysBack == 90
DaysForward == 180
chunk_size == 28

Required == {"server", "school", "username", "password"}

\* what load_config can return: the keys of the dict and the class id
Configs ==
  {[keys |-> ks, class_id |-> c] :
     ks \in {Required, {}} \cup {Required \ {k} : k \in Required},
     c \in {Absent, StrV(""), StrV("17"), StrV("abc")}}

\* "if not config": the dict is empty
ConfigEmpty(c) == c.keys = {} /\ c.class_id.t = "absent"

Sub(name, longname) == [name |-> name, longname |-> longname]

Lesson(id, date, startTime, endTime, code, su, substText, full) ==
  [id |-> id, date |-> date, startTime |-> startTime, endTime |-> endTime,
   code |-> code, su |-> su, substText |-> substText,
   te |-> IF full THEN ListV(<<Sub(StrV("SMI"), StrV("Smith")), Sub(StrV("JON"), Absent)>>)
          ELSE Absent,
   ro |-> IF full THEN ListV(<<Sub(StrV("R101"), StrV(""))>>) ELSE ListV(<<>>),
   kl |-> IF full THEN ListV(<<Sub(StrV("5A"), StrV("Class 5A"))>>) ELSE Absent,
   info |-> IF full THEN StrV("Bring books") ELSE Absent]

Math == Sub(StrV("M"), StrV("Math"))
Physics == Sub(StrV("PH"), StrV("Physics"))

GoodDate == IntV(20240305)
GoodStart == IntV(800)
GoodEnd == IntV(845)

\* a lesson with the given id, date and times and nothing else of note
Timed(id, date, startTime, endTime, code) ==
  Lesson(id, date, startTime, endTime, code, ListV(<<Math>>), Absent, FALSE)

\* lessons that differ in the fields the uid is built from
UidLessons ==
  {Timed(IntV(1), GoodDate, GoodStart, GoodEnd, Absent),
   Timed(IntV(12), GoodDate, GoodStart, GoodEnd, Absent),
   Timed(IntV(1), IntV(20240306), GoodStart, GoodEnd, Absent),
   Timed(IntV(1), GoodDate, IntV(1005), IntV(1050), Absent)}

\* lessons with malformed or missing id, date and time fields
TimeLessons ==
  {Timed(f[1], f[2], f[3], f[4], Absent) :
     f \in {<<IntV(1), IntV(20240230), GoodStart, GoodEnd>>,
            <<IntV(1), IntV(2024035), GoodStart, GoodEnd>>,
            <<IntV(1), Absent, GoodStart, GoodEnd>>,
            <<IntV(1), GoodDate, StrV("abc"), GoodEnd>>,
            <<IntV(1), GoodDate, Absent, GoodEnd>>,
            <<IntV(1), GoodDate, GoodStart, IntV(2400)>>,
            <<IntV(1), GoodDate, GoodStart, Absent>>,
            <<Absent, GoodDate, GoodStart, GoodEnd>>}}

\* lessons with a code, well-formed and not
CodeLessons ==
  {Timed(IntV(1), GoodDate, GoodStart, GoodEnd, StrV("irregular")),
   Timed(IntV(1), GoodDate, GoodStart, GoodEnd, StrV("cancelled")),
   Timed(IntV(1), StrV("abc"), GoodStart, GoodEnd, StrV("cancelled")),
   Timed(Absent, Absent, Absent, Absent, StrV("cancelled"))}

\* lessons that differ in the subjects and the substitution text
SummaryLessons ==
  {Lesson(IntV(1), GoodDate, GoodStart, GoodEnd, Absent, su, Absent, FALSE) :
     su \in {Absent, ListV(<<>>), ListV(<<Math, Physics>>),
             ListV(<<Sub(StrV("PH"), StrV("")), Sub(StrV("M"), Absent)>>),
             ListV(<<Sub(Absent, Absent)>>)}}
  \cup {Lesson(IntV(1), GoodDate, GoodStart, GoodEnd, Absent, su, subst, FALSE) :
          su \in {Absent, ListV(<<Math, Physics>>)},
          subst \in {StrV(""), StrV("Room changed")}}
  \cup {Lesson(IntV(1), GoodDate, GoodStart, GoodEnd, Absent, ListV(<<Math>>), subst, TRUE) :
          subst \in {Absent, StrV("Room changed")}}

\* the lessons the normalizer on its own is given
LessonSet == UidLessons \cup TimeLessons \cup CodeLessons \cup SummaryLessons

\* the lessons a getTimetable response carries in a whole run
RunLessons ==
  {Timed(IntV(1), GoodDate, GoodStart, GoodEnd, Absent),
   Timed(IntV(12), GoodDate, GoodStart, GoodEnd, Absent),
   Timed(IntV(1), GoodDate, StrV("abc"), GoodEnd, Absent),
   Timed(IntV(1), GoodDate, Absent, GoodEnd, Absent),
   Timed(IntV(1), GoodDate, GoodStart, GoodEnd, StrV("cancelled"))}

RECURSIVE SeqsUpTo(_, _)
\* the sequences over S of length at most n
SeqsUpTo(S, n) ==
  IF n <= 0 THEN {<<>>}
  ELSE LET shorter == SeqsUpTo(S, n - 1)
       IN shorter \cup {Append(q, x) : q \in shorter, x \in S}


(***************************************************************************)
(* The state of one run of the program.                                    *)
(***************************************************************************)

VARIABLES
  pc,             \* where the run is: "load_config", "login", "get_element",
                  \* "dates", "fetch", "normalize", "done", "failed"
  config,         \* what load_config returned
  requests,       \* the methods of the JSON-RPC requests posted, in order
  response,       \* what the last request came back with
  lookups,        \* history: <<method, outcome>> of each lookup of get_element_id
  any_failed,     \* history: some getTimetable request of the run has failed
  element,        \* <<element_id, element_type>>
  start_date, end_date, current_start,
  chunks,         \* the <<current_start, current_end>> of each getTimetable request
  full_timetable, \* get_timetable's list, then sync_calendar's timetable
  i,              \* the index in timetable of the loop's next lesson
  cal,            \* the events added to the calendar, in order
  src,            \* history: for each event of cal, the index of its lesson
  event_count,
  file,           \* docs/calendar.ics
  writes,         \* history: how often the run has written the file
  error,          \* the exception that reached __main__, "" if none
  exit_status     \* the process's exit status, -1 while it runs

vars == <<pc, config, requests, response, lookups, any_failed, element, start_date, end_date,
          current_start, chunks, full_timetable, i, cal, src, event_count,
          file, writes, error, exit_status>>

NoResponse == [kind |-> "none", items |-> <<>>]

Files == {[exists |-> FALSE, content |-> <<>>],
          [exists |-> TRUE, content |-> <<"previous run">>]}

\* the state as the process starts
Init ==
  /\ pc = "load_config"
  /\ config = [keys |-> {}, class_id |-> Absent]
  /\ requests = <<>>
  /\ response = NoResponse
  /\ lookups = <<>>
  /\ any_failed = FALSE
  /\ element = <<0, 0>>
  /\ start_date = 0 /\ end_date = 0 /\ current_start = 0
  /\ chunks = <<>>
  /\ full_timetable = <<>>
  /\ i = 1
  /\ cal = <<>>
  /\ src = <<>>
  /\ event_count = 0
  /\ file \in Files
  /\ writes = 0
  /\ error = ""
  /\ exit_status = -1

\* an exception reaches __main__: it is printed and the process exits with 1
Abort(e) ==
  /\ pc' = "failed"
  /\ error' = e
  /\ exit_status' = 1

\* sync_calendar: config = load_config(); if not config: raise
LoadConfig ==
  /\ pc = "load_config"
  /\ \E c \in Configs :
       /\ config' = c
       /\ IF ConfigEmpty(c)
          THEN Abort("Configuration not found")
          ELSE pc' = "login" /\ UNCHANGED <<error, exit_status>>
  /\ UNCHANGED <<requests, response, lookups, any_failed, element, start_date,
                 end_date, current_start, chunks, full_timetable, i, cal, src,
                 event_count, file, writes>>

\* how the authenticate request can end
LoginOutcomes == {"ok", "transport", "http_status", "bad_json", "error", "no_session"}

\* a faulty variant of LoginError: the response's error field is not looked at
LoginErrorIgnoresErrorField(outcome) ==
  CASE outcome \in {"transport", "http_status"} -> "Connection failed"
    [] outcome = "bad_json" -> "JSONDecodeError"
    [] outcome = "no_session" -> "KeyError: sessionId"
    [] OTHER -> ""

\* the exception webuntis_login raises for an outcome, "" if it returns
LoginError(outcome) ==
  CASE outcome \in {"transport", "http_status"} -> "Connection failed"
    [] outcome = "bad_json" -> "JSONDecodeError"
    [] outcome = "error" -> "Login failed"
    [] outcome = "no_session" -> "KeyError: sessionId"
    [] OTHER -> ""

\* webuntis_login(config)
Login ==
  /\ pc = "login"
  /\ IF ~(Required \subseteq config.keys)
     THEN \* config['server'] ... config['password'] raise before the post
          /\ Abort("KeyError: config")
          /\ UNCHANGED <<requests, response>>
     ELSE \E outcome \in LoginOutcomes :
            /\ requests' = Append(requests, "authenticate")
            /\ response' = [kind |-> outcome, items |-> <<>>]
            /\ IF LoginError(outcome) /= ""
               THEN Abort(LoginError(outcome))
               ELSE pc' = "get_element" /\ UNCHANGED <<error, exit_status>>
  /\ UNCHANGED <<config, lookups, any_failed, element, start_date, end_date,
                 current_start, chunks, full_timetable, i, cal, src, event_count,
                 file, writes>>

\* how a getKlassen or getStudents request can end: a non-empty result, an
\* empty result, no result key (an error field), or an exception (the post,
\* the decoding, or a first entry without the fields read)
LookupOutcomes == {"found", "empty", "error", "raise"}

\* a faulty variant of LookupFound: the result's length is not looked at
LookupFoundAnyResult(outcome) == outcome \in {"found", "empty"}

\* 'result' in result and len(result['result']) > 0
LookupFound(outcome) == outcome = "found"

ClassIds == {3}
StudentIds == {9}

\* get_element_id(session, config, session_id)
GetElement ==
  /\ pc = "get_element"
  /\ IF Truthy(config.class_id)
     THEN /\ UNCHANGED <<requests, response, lookups>>
          /\ IF IntOf(config.class_id).ok
             THEN /\ element' = <<IntOf(config.class_id).v, 1>>
                  /\ pc' = "dates"
                  /\ UNCHANGED <<error, exit_status>>
             ELSE Abort("ValueError: class_id") /\ UNCHANGED element
     ELSE \E klassen \in LookupOutcomes :
            IF LookupFound(klassen)
            THEN /\ requests' = Append(requests, "getKlassen")
                 /\ response' = [kind |-> klassen, items |-> <<>>]
                 /\ lookups' = <<<<"getKlassen", klassen>>>>
                 /\ \E id \in ClassIds : element' = <<id, 1>>
                 /\ pc' = "dates"
                 /\ UNCHANGED <<error, exit_status>>
            ELSE IF klassen = "raise"
            THEN /\ requests' = Append(requests, "getKlassen")
                 /\ response' = [kind |-> klassen, items |-> <<>>]
                 /\ lookups' = <<<<"getKlassen", klassen>>>>
                 /\ Abort("lookup raised")
                 /\ UNCHANGED element
            ELSE \E students \in LookupOutcomes :
                   /\ requests' = requests \o <<"getKlassen", "getStudents">>
                   /\ response' = [kind |-> students, items |-> <<>>]
                   /\ lookups' = <<<<"getKlassen", klassen>>, <<"getStudents", students>>>>
                   /\ IF LookupFound(students)
                      THEN /\ \E id \in StudentIds : element' = <<id, 5>>
                           /\ pc' = "dates"
                           /\ UNCHANGED <<error, exit_status>>
                      ELSE IF students = "raise"
                      THEN Abort("lookup raised") /\ UNCHANGED element
                      ELSE Abort("Could not find any Class or Student ID")
                           /\ UNCHANGED element
  /\ UNCHANGED <<config, any_failed, start_date, end_date, current_start, chunks,
                 full_timetable, i, cal, src, event_count, file, writes>>

\* sync_calendar's date configuration and the call of get_timetable up to
\* its loop
Dates ==
  /\ pc = "dates"
  /\ \E today \in 0..MaxToday :
       /\ start_date' = today - DaysBack
       /\ end_date' = today + DaysForward
       /\ current_start' = today - DaysBack
  /\ full_timetable' = <<>>
  /\ pc' = "fetch"
  /\ UNCHANGED <<config, requests, response, lookups, any_failed, element,
                 chunks, i, cal, src, event_count, file, writes, error, exit_status>>

\* how a getTimetable request can end: a result, an error field, or an
\* exception of the post or of the decoding
ChunkResponses ==
  {[kind |-> "ok", items |-> q] : q \in SeqsUpTo(RunLessons, MaxTimetable)}
  \cup {[kind |-> "error", items |-> <<>>], [kind |-> "exception", items |-> <<>>]}

\* a faulty variant of Extended: a failed chunk empties the list
ExtendedDropsOnFailure(timetable, r) ==
  IF r.kind = "ok" THEN timetable \o r.items ELSE <<>>

\* what one pass of the loop's try block appends to full_timetable
Extended(timetable, r) ==
  IF r.kind = "ok" THEN timetable \o r.items ELSE timetable

\* current_end = min(current_start + timedelta(days=chunk_size), end_date)
ChunkEnd(start, end) == Min(start + chunk_size, end)

\* a faulty variant of NextStart: the next chunk starts on the day the last one ended
NextStartSameDay(end) == end

\* current_start = current_end + timedelta(days=1)
NextStart(end) == end + 1

\* a faulty variant of MoreChunks: the loop runs until the dates are equal
MoreChunksNotEqual(start, end) == start /= end

\* the loop's condition
MoreChunks(start, end) == start < end

\* one pass of get_timetable's loop
FetchChunk ==
  /\ pc = "fetch"
  /\ MoreChunks(current_start, end_date)
  /\ LET current_end == ChunkEnd(current_start, end_date)
     IN /\ chunks' = Append(chunks, <<current_start, current_end>>)
        /\ requests' = Append(requests, "getTimetable")
        /\ \E r \in ChunkResponses :
             /\ Len(full_timetable) + Len(r.items) <= MaxTimetable
             /\ response' = r
             /\ full_timetable' = Extended(full_timetable, r)
             /\ any_failed' = (any_failed \/ r.kind /= "ok")
        /\ current_start' = NextStart(current_end)
  /\ UNCHANGED <<pc, config, lookups, element, start_date, end_date, i, cal, src,
                 event_count, file, writes, error, exit_status>>

\* get_timetable returns; sync_calendar sets up the calendar and the loop
ReturnTimetable ==
  /\ pc = "fetch"
  /\ ~MoreChunks(current_start, end_date)
  /\ pc' = "normalize"
  /\ i' = 1
  /\ cal' = <<>>
  /\ src' = <<>>
  /\ event_count' = 0
  /\ UNCHANGED <<config, requests, response, lookups, any_failed, element,
                 start_date, end_date, current_start, chunks, full_timetable,
                 file, writes, error, exit_status>>

\* one pass of sync_calendar's loop over the timetable
ProcessLesson ==
  /\ pc = "normalize"
  /\ i <= Len(full_timetable)
  /\ LET lesson == full_timetable[i]
     IN IF IsCancelled(lesson)
        THEN /\ i' = i + 1
             /\ UNCHANGED <<pc, cal, src, event_count, error, exit_status>>
        ELSE IF Raised(lesson) = "none"
        THEN /\ cal' = Append(cal, MakeEvent(lesson))
             /\ src' = Append(src, i)
             /\ event_count' = event_count + 1
             /\ i' = i + 1
             /\ UNCHANGED <<pc, error, exit_status>>
        ELSE IF Caught(Raised(lesson))
        THEN /\ i' = i + 1
             /\ UNCHANGED <<pc, cal, src, event_count, error, exit_status>>
        ELSE /\ Abort(Raised(lesson))
             /\ UNCHANGED <<i, cal, src, event_count>>
  /\ UNCHANGED <<config, requests, response, lookups, any_failed, element,
                 start_date, end_date, current_start, chunks, full_timetable,
                 file, writes>>

\* the loop is over: the file is written and sync_calendar returns
SaveFile ==
  /\ pc = "normalize"
  /\ i > Len(full_timetable)
  /\ file' = [exists |-> TRUE, content |-> cal]
  /\ writes' = writes + 1
  /\ pc' = "done"
  /\ exit_status' = 0
  /\ UNCHANGED <<config, requests, response, lookups, any_failed, element,
                 start_date, end_date, current_start, chunks, full_timetable, i,
                 cal, src, event_count, error>>

Next ==
  \/ LoadConfig
  \/ Login
  \/ GetElement
  \/ Dates
  \/ FetchChunk
  \/ ReturnTimetable
  \/ ProcessLesson
  \/ SaveFile

\* a whole run of the program
Spec == Init /\ [][Next]_vars


(***************************************************************************)
(* get_timetable on its own, for any window.                               *)
(***************************************************************************)

\* get_timetable is called with a window and has reached its loop
InitTimetable ==
  /\ pc = "fetch"
  /\ config = [keys |-> Required, class_id |-> StrV("17")]
  /\ requests = <<>>
  /\ response = NoResponse
  /\ lookups = <<>>
  /\ any_failed = FALSE
  /\ element = <<17, 1>>
  /\ start_date \in 0..MaxStart
  /\ end_date \in start_date..(start_date + MaxWindow)
  /\ current_start = start_date
  /\ chunks = <<>>
  /\ full_timetable = <<>>
  /\ i = 1
  /\ cal = <<>>
  /\ src = <<>>
  /\ event_count = 0
  /\ file = [exists |-> FALSE, content |-> <<>>]
  /\ writes = 0
  /\ error = ""
  /\ exit_status = -1

NextTimetable ==
  \/ FetchChunk
  \/ ReturnTimetable

SpecTimetable == InitTimetable /\ [][NextTimetable]_vars

\* every request returns (or raises): a pass of the loop that can be made is made
FairTimetable == SpecTimetable /\ WF_vars(NextTimetable)

(***************************************************************************)
(* The loop over the timetable on its own, for any timetable.              *)
(***************************************************************************)

\* get_timetable has returned a timetable and the loop is about to start
InitNormalize ==
  /\ pc = "normalize"
  /\ config = [keys |-> Required, class_id |-> StrV("17")]
  /\ requests = <<>>
  /\ response = NoResponse
  /\ lookups = <<>>
  /\ any_failed = FALSE
  /\ element = <<17, 1>>
  /\ start_date = 0 /\ end_date = 0 /\ current_start = 0
  /\ chunks = <<>>
  /\ full_timetable \in SeqsUpTo(LessonSet, MaxTimetable)
  /\ i = 1
  /\ cal = <<>>
  /\ src = <<>>
  /\ event_count = 0
  /\ file = [exists |-> FALSE, content |-> <<>>]
  /\ writes = 0
  /\ error = ""
  /\ exit_status = -1

NextNormalize ==
  \/ ProcessLesson
  \/ SaveFile

SpecNormalize == InitNormalize /\ [][NextNormalize]_vars


(***************************************************************************)
(* The claims.                                                             *)
(***************************************************************************)

Last(q) == q[Len(q)]

RECURSIVE Planned(_, _)
\* the chunks of a window when no request fails
Planned(s, e) ==
  IF s < e
  THEN <<<<s, Min(s + chunk_size, e)>>>> \o Planned(Min(s + chunk_size, e) + 1, e)
  ELSE <<>>

\* the errors that end a run before the timetable is requested
FatalErrors ==
  {"Configuration not found", "KeyError: config", "Connection failed",
   "JSONDecodeError", "Login failed", "KeyError: sessionId",
   "ValueError: class_id", "lookup raised",
   "Could not find any Class or Student ID"}

\* C1, in every state: once get_timetable has returned, a request was made for
\* every chunk of the window whatever failed; a run that ends "done" has
\* written the calendar to the file and exits with 0; and a run that fails
\* after the timetable was requested fails on a lesson without a field the
\* loop reads (a KeyError), never on a chunk.
C1_AfterFetch ==
  /\ (pc \in {"normalize", "done"} \/ (pc = "failed" /\ error \notin FatalErrors))
       => chunks = Planned(start_date, end_date)
  /\ pc = "done"
       => /\ writes = 1
          /\ file = [exists |-> TRUE, content |-> cal]
          /\ exit_status = 0
          /\ error = ""
          /\ event_count = Len(cal)
  /\ (pc = "failed" /\ error \notin FatalErrors)
       => /\ error = "KeyError"
          /\ i <= Len(full_timetable)
          /\ "absent" \in {full_timetable[i].id.t, full_timetable[i].date.t,
                           full_timetable[i].startTime.t, full_timetable[i].endTime.t}

\* C1, in every step that requests a chunk: the loop goes on, a failed chunk
\* (an error field or an exception) leaves the list as it was, and a
\* successful chunk appends its lessons, in the order returned, at the end.
C1_FetchStep ==
  (pc = "fetch" /\ Len(chunks') = Len(chunks) + 1)
    => /\ pc' = "fetch"
       /\ exit_status' = -1
       /\ response'.kind \in {"error", "exception"} => full_timetable' = full_timetable
       /\ response'.kind = "ok" => full_timetable' = full_timetable \o response'.items

\* C1: chunk failures are not fatal: every later chunk is still requested, the
\* failed chunks contribute no lessons, the list is the successful chunks'
\* lessons in chunk order, and the run goes on to write the file and exit 0.
C1_ChunkFailuresNotFatal == []C1_AfterFetch /\ [][C1_FetchStep]_vars

\* C1 witness: a run ends "done" in which a chunk failed, the last chunk
\* returned a lesson, and that lesson's event is the last one of the calendar
\* after an earlier chunk's.
C1_Witness ==
  /\ pc = "done"
  /\ exit_status = 0
  /\ any_failed
  /\ response.kind = "ok"
  /\ Len(response.items) = 1
  /\ Len(cal) = 2
  /\ Last(cal) = MakeEvent(response.items[1])
  /\ cal[1].uid /= cal[2].uid

\* C2: a run that ends on a fatal error (configuration, authentication or
\* element resolution) exits non-zero, has not written the file and has made
\* no getTimetable request; and every such condition is fatal: the run gets
\* past load_config only with a non-empty configuration, past the login only
\* with all required settings and an authenticate response without failure,
\* and to the timetable only with an element resolved. No failed run writes
\* the file.
C2_FatalNoOutput ==
  /\ (pc = "failed" /\ error \in FatalErrors)
       => /\ exit_status = 1
          /\ writes = 0
          /\ file \in Files
          /\ \A k \in 1..Len(requests) : requests[k] /= "getTimetable"
          /\ chunks = <<>>
  /\ exit_status = 1 => (pc = "failed" /\ writes = 0 /\ file \in Files)
  /\ pc \notin {"load_config", "failed"} => ~ConfigEmpty(config)
  /\ pc \notin {"load_config", "login", "failed"}
       => (Required \subseteq config.keys /\ requests /= <<>>
           /\ requests[1] = "authenticate")
  /\ pc = "get_element" => response.kind = "ok"
  /\ pc \in {"dates", "fetch", "normalize", "done"}
       => (element[2] \in {1, 5}
           /\ (lookups /= <<>> => Last(lookups)[2] = "found")
           /\ (lookups = <<>> => IntOf(config.class_id).ok))

\* C2 witness: the login failed on an error field while an older file exists.
C2_Witness ==
  /\ pc = "failed"
  /\ error = "Login failed"
  /\ requests = <<"authenticate">>
  /\ file.exists
  /\ exit_status = 1

\* the chunks requested cover the window from its first to its last date
Covers(cs, s, e) ==
  /\ cs /= <<>>
  /\ cs[1][1] = s
  /\ Last(cs)[2] = e
  /\ \A d \in s..e : \E k \in 1..Len(cs) : cs[k][1] <= d /\ d <= cs[k][2]

\* C3: for every window with end_date > start_date, the first chunk starts at
\* start_date, the last chunk ends at end_date, and every date of the window
\* lies in some requested chunk.
C3_WindowCovered ==
  (pc = "normalize" /\ end_date > start_date) => Covers(chunks, start_date, end_date)

\* C4: every chunk has start <= end and end = min(start + 28 days, end_date),
\* and each chunk after the first starts one day after the previous chunk's
\* end, so the chunks are contiguous, strictly increasing and disjoint.
C4_ChunksContiguous ==
  /\ \A k \in 1..Len(chunks) :
       /\ chunks[k][1] <= chunks[k][2]
       /\ chunks[k][2] = Min(chunks[k][1] + chunk_size, end_date)
       /\ chunks[k][2] - chunks[k][1] <= 28
       /\ k > 1 => chunks[k][1] = chunks[k - 1][2] + 1
  /\ \A j, k \in 1..Len(chunks) :
       j < k => chunks[j][2] < chunks[k][1]
  /\ chunks /= <<>> => chunks[1][1] = start_date

\* C4 witness: a window of three chunks, the last one cut at end_date.
C4_Witness ==
  /\ pc = "normalize"
  /\ Len(chunks) = 3
  /\ chunks[3][2] = end_date
  /\ chunks[3][2] - chunks[3][1] < chunk_size

\* C10, in every state: the loop is over once a chunk's end has reached
\* end_date, and a window with end_date > start_date has at least one chunk
\* when get_timetable returns.
C10_LoopEnds ==
  /\ (pc = "fetch" /\ chunks /= <<>> /\ Last(chunks)[2] >= end_date)
       => ~ENABLED FetchChunk
  /\ (pc = "normalize" /\ end_date > start_date) => Len(chunks) >= 1

\* C10, in every pass of the loop: current_start strictly increases.
C10_Progress ==
  Len(chunks') = Len(chunks) + 1 => current_start' > current_start

\* C10: the chunking loop terminates: current_start strictly increases in
\* every pass, succeeded or failed, the loop ends once the chunk end has
\* reached end_date, and a non-empty window gets at least one chunk.
C10_LoopTerminates ==
  /\ <>(pc = "normalize")
  /\ []C10_LoopEnds
  /\ [][C10_Progress]_vars

\* C10 witness: get_timetable has returned after two chunks, the last of
\* which raised an exception.
C10_Witness ==
  /\ pc = "normalize"
  /\ Len(chunks) = 2
  /\ response.kind = "exception"
  /\ current_start > end_date


\* the lookups get_element_id made, by method
Looked(method) == \E k \in 1..Len(lookups) : lookups[k][1] = method

ResolutionErrors ==
  {"ValueError: class_id", "lookup raised", "Could not find any Class or Student ID"}

Resolved == pc \in {"dates", "fetch", "normalize", "done"}

ResolutionFailed == pc = "failed" /\ error \in ResolutionErrors

\* C7 as stated, for a run without a configured class id: the class lookup
\* is tried first; whenever it does not succeed the student lookup is
\* attempted next; resolution is fatal only when both lookups fail; a
\* successful class lookup never triggers a student lookup.
C7_AsStated ==
  ~Truthy(config.class_id) =>
    /\ (Resolved \/ ResolutionFailed)
         => (lookups /= <<>> /\ lookups[1][1] = "getKlassen")
    /\ (Looked("getKlassen") /\ lookups[1][2] /= "found") => Looked("getStudents")
    /\ ResolutionFailed
         => (Len(lookups) = 2 /\ lookups[1][2] /= "found" /\ lookups[2][2] /= "found")
    /\ (Looked("getKlassen") /\ lookups[1][2] = "found") => ~Looked("getStudents")

\* C7 as amended: with a class id configured no lookup is made, and
\* resolution is fatal only if the id is not an integer. Otherwise getKlassen
\* is requested first; getStudents is requested next exactly when the
\* getKlassen response was decoded and holds no non-empty result; a non-empty
\* class result never triggers a student lookup; and resolution is fatal
\* exactly when a lookup raised or both lookups came back without a non-empty
\* result.
C7_Amended ==
  /\ (Resolved \/ ResolutionFailed)
       => IF Truthy(config.class_id)
          THEN /\ lookups = <<>>
               /\ Resolved <=> IntOf(config.class_id).ok
               /\ Resolved => element = <<IntOf(config.class_id).v, 1>>
          ELSE /\ lookups /= <<>>
               /\ lookups[1][1] = "getKlassen"
               /\ Len(lookups) = 2 <=> lookups[1][2] \in {"empty", "error"}
               /\ Len(lookups) = 2 => lookups[2][1] = "getStudents"
               /\ Len(lookups) <= 2
               /\ ResolutionFailed
                    <=> \/ Last(lookups)[2] = "raise"
                        \/ (Len(lookups) = 2 /\ lookups[2][2] \in {"empty", "error"})
               /\ Resolved => element[2] = (IF Len(lookups) = 1 THEN 1 ELSE 5)
  /\ (pc \in {"load_config", "login", "get_element"}
      \/ (pc = "failed" /\ error \in FatalErrors \ ResolutionErrors))
       => lookups = <<>>

\* C7 witness: the class lookup came back empty and the student lookup found
\* the element.
C7_Witness ==
  /\ pc = "dates"
  /\ lookups = <<<<"getKlassen", "empty">>, <<"getStudents", "found">>>>
  /\ element[2] = 5

(***************************************************************************)
(* Claims about the loop over the timetable.                               *)
(***************************************************************************)

\* the lessons the loop has gone through
Processed == SubSeq(full_timetable, 1, i - 1)

CodeIsCancelled(lesson) == lesson.code.t = "str" /\ lesson.code.v = "cancelled"

\* C5: no event of the calendar comes from a lesson whose code is
\* "cancelled", whatever its other fields are; the count is the number of
\* events, none of them from a cancelled lesson; and a cancelled lesson never
\* ends the run.
C5_CancelledNoEvent ==
  /\ Len(src) = Len(cal)
  /\ event_count = Len(cal)
  /\ \A k \in 1..Len(src) : ~CodeIsCancelled(full_timetable[src[k]])
  /\ event_count <= Cardinality({k \in 1..(i - 1) : ~CodeIsCancelled(full_timetable[k])})
  /\ (pc = "failed" /\ i <= Len(full_timetable)) => ~CodeIsCancelled(full_timetable[i])

\* C5 witness: a cancelled lesson with no id, no date and no times was gone
\* through before a good one, and the run ended with the good one's event only.
C5_Witness ==
  /\ pc = "done"
  /\ Len(full_timetable) = 2
  /\ CodeIsCancelled(full_timetable[1])
  /\ full_timetable[1].date.t = "absent"
  /\ src = <<2>>
  /\ event_count = 1

\* the lesson's date or one of its times fails to parse: the first thing the
\* loop's body raises for it is the parse's ValueError
ParseFails(lesson) == ~CodeIsCancelled(lesson) /\ Raised(lesson) = "ValueError"

ParsesOrCancelled(lesson) == ~ParseFails(lesson)

RECURSIVE EventsOf(_)
\* the events of a timetable
EventsOf(q) ==
  IF q = <<>> THEN <<>>
  ELSE (IF ~CodeIsCancelled(Head(q)) /\ Raised(Head(q)) = "none"
        THEN <<MakeEvent(Head(q))>> ELSE <<>>) \o EventsOf(Tail(q))

\* C6: a lesson whose date or time fails to parse is skipped and does not
\* end the run: the calendar and the count after any number of lessons are
\* those of the same lessons with the unparseable ones left out.
C6_ParseFailureSkipped ==
  /\ cal = EventsOf(SelectSeq(Processed, ParsesOrCancelled))
  /\ event_count = Len(cal)
  /\ (pc = "failed" /\ i <= Len(full_timetable)) => ~ParseFails(full_timetable[i])
  /\ \A k \in 1..Len(src) : ~ParseFails(full_timetable[src[k]])

\* C6 witness: a lesson with the startTime "abc" was skipped and the lesson
\* after it is in the calendar of a finished run.
C6_Witness ==
  /\ pc = "done"
  /\ Len(full_timetable) = 2
  /\ full_timetable[1].startTime = StrV("abc")
  /\ ~CodeIsCancelled(full_timetable[1])
  /\ cal = <<MakeEvent(full_timetable[2])>>
  /\ event_count = 1

UidKey(lesson) == <<lesson.id, lesson.date, lesson.startTime>>

\* C8: the uid is a function of (id, date, startTime) and an injective one:
\* two events of a calendar have the same uid exactly when their lessons
\* agree in id, date and startTime.
C8_UidInjective ==
  \A a, b \in 1..Len(cal) :
    (cal[a].uid = cal[b].uid)
      <=> (UidKey(full_timetable[src[a]]) = UidKey(full_timetable[src[b]]))

\* C8 witness: two lessons that differ in the startTime alone are both in
\* the calendar, under different uids.
C8_Witness ==
  /\ Len(cal) = 2
  /\ full_timetable[src[1]].id = full_timetable[src[2]].id
  /\ full_timetable[src[1]].date = full_timetable[src[2]].date
  /\ full_timetable[src[1]].startTime /= full_timetable[src[2]].startTime
  /\ cal[1].uid /= cal[2].uid

\* the display name of the claim: longname if non-empty, else name, else ""
ClaimedName(e) ==
  IF e.longname.t = "str" /\ e.longname.v /= "" THEN e.longname.v
  ELSE IF e.name.t = "str" THEN e.name.v ELSE ""

RECURSIVE CommaJoined(_)
CommaJoined(es) ==
  IF es = <<>> THEN ""
  ELSE IF Len(es) = 1 THEN ClaimedName(es[1])
  ELSE ClaimedName(es[1]) \o ", " \o CommaJoined(Tail(es))

\* the summary without the substitution text
ClaimedSubjects(lesson) ==
  IF lesson.su.t = "absent" \/ lesson.su.v = <<>> THEN "Lesson"
  ELSE CommaJoined(lesson.su.v)

\* C9 as stated: the summary is the comma-and-space-joined subject names, or
\* "Lesson" without subjects, and if substText is present that text followed
\* by a space and substText in parentheses.
C9_AsStated ==
  \A k \in 1..Len(cal) :
    LET lesson == full_timetable[src[k]]
    IN cal[k].summary =
         IF lesson.substText.t /= "absent"
         THEN ClaimedSubjects(lesson) \o " (" \o lesson.substText.v \o ")"
         ELSE ClaimedSubjects(lesson)

\* C9 as amended: the parenthesised substText is appended if substText is
\* present and not empty.
C9_Amended ==
  \A k \in 1..Len(cal) :
    LET lesson == full_timetable[src[k]]
    IN cal[k].summary =
         IF lesson.substText.t /= "absent" /\ lesson.substText.v /= ""
         THEN ClaimedSubjects(lesson) \o " (" \o lesson.substText.v \o ")"
         ELSE ClaimedSubjects(lesson)

\* C9 witness: the event of a lesson with two subjects and a substitution
\* text.
C9_Witness ==
  /\ Len(cal) >= 1
  /\ Len(GetList(full_timetable[src[1]].su)) = 2
  /\ cal[1].summary = "Math, Physics (Room changed)"

====
